---- MODULE Spec2Model ----
(***************************************************************************)
(* Model of the book tracker screen (src/App.js): the React state of App,  *)
(* its handlers (fetchBooks, resetForm, handleSubmit, handleDelete,        *)
(* startEdit, the field setters), the HTTP requests they leave in flight   *)
(* and the REST collection they talk to.                                   *)
(*                                                                         *)
(* Strings are sequences of one-character strings.  A JavaScript number or *)
(* undefined is a tagged record (IntV(n), NaNV, UndefV, NullV).            *)
(***************************************************************************)
EXTENDS Integers, Sequences, FiniteSets, Bags

\* ---------------------------------------------------------------- bounds
\* requests that may be in flight at once
MaxInflight == 2
\* identifiers the server hands out (0 .. MaxIds-1)
MaxIds == 2

\* ---------------------------------------------------------------- values
\* editingId's null (useState(null)); server identifiers are 0, 1, 2, ...
Null == -1

IntV(n) == [tag |-> "int", v |-> n]
NaNV == [tag |-> "nan", v |-> 0]
UndefV == [tag |-> "undefined", v |-> 0]
NullV == [tag |-> "null", v |-> 0]
StrV(s) == [tag |-> "str", v |-> s]
NullS == [tag |-> "null", v |-> <<>>]

WS == " "
DigitChars == <<"0", "1", "2", "3", "4", "5", "6", "7", "8", "9">>
IsDigit(c) == \E i \in 1..10 : DigitChars[i] = c
DigitVal(c) == (CHOOSE i \in 1..10 : DigitChars[i] = c) - 1

\* ------------------------------------------------------- pure functions
RECURSIVE TrimStart(_)
TrimStart(s) ==
    IF s # <<>> /\ Head(s) = WS THEN TrimStart(Tail(s)) ELSE s

RECURSIVE TrimEnd(_)
TrimEnd(s) ==
    IF s # <<>> /\ s[Len(s)] = WS THEN TrimEnd(SubSeq(s, 1, Len(s) - 1)) ELSE s

\* String.prototype.trim
Trim(s) == TrimEnd(TrimStart(s))

\* the longest prefix of decimal digits
RECURSIVE DigitPrefix(_)
DigitPrefix(s) ==
    IF s # <<>> /\ IsDigit(Head(s)) THEN <<Head(s)>> \o DigitPrefix(Tail(s)) ELSE <<>>

RECURSIVE DigitsValue(_, _)
DigitsValue(s, acc) ==
    IF s = <<>> THEN acc ELSE DigitsValue(Tail(s), acc * 10 + DigitVal(Head(s)))

\* parseInt(s, 10): leading white space, an optional sign, then digits;
\* NaN when no digit follows
ParseInt(s) ==
    LET t == TrimStart(s)
        neg == t # <<>> /\ Head(t) = "-"
        signed == t # <<>> /\ Head(t) \in {"-", "+"}
        d == DigitPrefix(IF signed THEN Tail(t) ELSE t)
    IN IF d = <<>> THEN NaNV
       ELSE IntV(IF neg THEN 0 - DigitsValue(d, 0) ELSE DigitsValue(d, 0))

RECURSIVE NatToString(_)
NatToString(n) ==
    IF n < 10 THEN <<DigitChars[n + 1]>>
    ELSE NatToString(n \div 10) \o <<DigitChars[(n % 10) + 1]>>

\* Number.prototype.toString
NumToString(n) == IF n < 0 THEN <<"-">> \o NatToString(0 - n) ELSE NatToString(n)

\* JavaScript truthiness of an identifier (null and 0 are falsy)
TruthyId(id) == id # Null /\ id # 0

\* JavaScript truthiness of a number-or-missing value
TruthyNum(y) == y.tag = "int" /\ y.v # 0

\* truthiness of a string
TruthyStr(s) == s # <<>>

\* ------------------------------------------------------ what the user types
\* Spec, the request lifecycle: the form is either empty or valid
TitleInputs == {<<"D">>}
AuthorInputs == {<<"H">>}
YearInputs == {<<>>}
DescriptionInputs == {<<>>}

\* SpecForm, the form: blank, padded and non-numeric fields
FormTitleInputs == {<<>>, <<WS, WS>>, <<WS, "D", WS>>}
FormAuthorInputs == {<<>>, <<WS>>, <<"H">>}
FormYearInputs == {<<>>, <<"1", "9", "6", "5">>, <<"-">>, <<WS, "7", "x">>}
FormDescriptionInputs == {<<>>, <<"d", WS>>}

\* ------------------------------------------------------------------ state
VARIABLES
    books,        \* useState([]): the cached collection
    title,        \* useState('')
    author,       \* useState('')
    year,         \* useState('')
    description,  \* useState('')
    editingId,    \* useState(null)
    loading,      \* useState(false)
    prompt,       \* the id of the open 'Delete Book' confirmation, or Null
    net,          \* the bag of requests in flight
    server,       \* the collection behind the REST API
    nextId,       \* the next identifier the server assigns
    ev            \* what the last step did: its handler, alerts shown, requests issued

vars == <<books, title, author, year, description, editingId, loading,
          prompt, net, server, nextId, ev>>

form == <<title, author, year, description, editingId>>

NoData == [title |-> <<>>, author |-> <<>>, year |-> UndefV, description |-> <<>>]

\* a request as axios holds it: what was sent, the editingId the issuing
\* closure captured, and the response once the server has answered
Request(method, id, data, closureId) ==
    [method |-> method, id |-> id, data |-> data, closureId |-> closureId,
     stage |-> "sent", resp |-> {}]

GetBooks == Request("GET", Null, NoData, Null)

Event(op, alerts, sent, stale) ==
    [op |-> op, alerts |-> alerts, sent |-> sent, stale |-> stale]

Wire(r) == [method |-> r.method, id |-> r.id, data |-> r.data]

One(r) == SetToBag({r})
Inflight == BagToSet(net)

\* the form and the list are rendered unless the spinner replaces them
ContentVisible == ~(loading /\ books = {})

\* nothing below the modal confirmation can be pressed while it is open
CanTouch == ContentVisible /\ prompt = Null

Init ==
    /\ books = {}
    /\ title = <<>>
    /\ author = <<>>
    /\ year = <<>>
    /\ description = <<>>
    /\ editingId = Null
    /\ loading = TRUE
    /\ prompt = Null
    /\ net = One(GetBooks)
    /\ server = {}
    /\ nextId = 0
    /\ ev = Event("mount", <<>>, <<Wire(GetBooks)>>, FALSE)

\* ------------------------------------------------------------- fetchBooks
\* the GET answered with the collection: setBooks(res.data), then finally
FetchOk(r) ==
    /\ r.method = "GET"
    /\ r.stage = "ok"
    /\ books' = r.resp
    /\ loading' = FALSE
    /\ net' = net (-) One(r)
    /\ ev' = Event("fetchOk", <<>>, <<>>, FALSE)
    /\ UNCHANGED <<title, author, year, description, editingId, prompt, server, nextId>>

\* FetchErr with a catch block that also empties the list
FetchErrClears(r) ==
    /\ r.method = "GET"
    /\ r.stage = "sent"
    /\ books' = {}
    /\ loading' = FALSE
    /\ net' = net (-) One(r)
    /\ ev' = Event("fetchErr", <<"Error:fetch">>, <<>>, FALSE)
    /\ UNCHANGED <<title, author, year, description, editingId, prompt, server, nextId>>

\* the GET is rejected (a network or API failure: the collection is as it
\* was): the alert of the catch block, then finally
FetchErr(r) ==
    /\ r.method = "GET"
    /\ r.stage = "sent"
    /\ loading' = FALSE
    /\ net' = net (-) One(r)
    /\ ev' = Event("fetchErr", <<"Error:fetch">>, <<>>, FALSE)
    /\ UNCHANGED <<books, title, author, year, description, editingId, prompt, server, nextId>>

\* -------------------------------------------------------------- resetForm
\* resetForm without setYear('')
ResetFormKeepsYear ==
    /\ title' = <<>>
    /\ author' = <<>>
    /\ year' = year
    /\ description' = <<>>
    /\ editingId' = Null

ResetForm ==
    /\ title' = <<>>
    /\ author' = <<>>
    /\ year' = <<>>
    /\ description' = <<>>
    /\ editingId' = Null

\* the Cancel button of the form: rendered in edit mode, disabled while busy
CancelEdit ==
    /\ CanTouch
    /\ TruthyId(editingId)
    /\ ~loading
    /\ ResetForm
    /\ ev' = Event("resetForm", <<>>, <<>>, FALSE)
    /\ UNCHANGED <<books, loading, prompt, net, server, nextId>>

\* ------------------------------------------------------------ handleSubmit
\* the validation without trim()
InvalidNoTrim(t, a) == ~TruthyStr(t) \/ ~TruthyStr(a)

\* the validation of handleSubmit
Invalid(t, a) == ~TruthyStr(Trim(t)) \/ ~TruthyStr(Trim(a))

\* the payload handleSubmit builds
Payload(t, a, y, d) ==
    [title |-> Trim(t),
     author |-> Trim(a),
     year |-> IF TruthyStr(y) THEN ParseInt(y) ELSE UndefV,
     description |-> Trim(d)]

\* the request handleSubmit chooses
SubmitRequest(id, data) ==
    IF TruthyId(id) THEN Request("PUT", id, data, id)
    ELSE Request("POST", Null, data, id)

\* the failure alert worded by the editingId of the screen, not the closure's
FailureAlertCurrent(id) == IF TruthyId(editingId) THEN "Error:update" ELSE "Error:add"

\* the words of the alerts, chosen by the editingId the closure holds
SuccessAlert(id) == IF TruthyId(id) THEN "Success:updated" ELSE "Success:added"
FailureAlert(id) == IF TruthyId(id) THEN "Error:update" ELSE "Error:add"

\* the press of the submit button, up to the await
HandleSubmit ==
    /\ CanTouch
    /\ ~loading
    /\ IF Invalid(title, author)
       THEN /\ ev' = Event("handleSubmit", <<"Validation">>, <<>>, FALSE)
            /\ UNCHANGED <<loading, net>>
       ELSE /\ BagCardinality(net) < MaxInflight
            /\ LET q == SubmitRequest(editingId, Payload(title, author, year, description))
               IN /\ net' = net (+) One(q)
                  /\ ev' = Event("handleSubmit", <<>>, <<Wire(q)>>, FALSE)
            /\ loading' = TRUE
    /\ UNCHANGED <<books, title, author, year, description, editingId, prompt, server, nextId>>

\* the busy flag once the try block of a mutation has called fetchBooks()
\* without awaiting it and the finally block has run
LoadingAfterMutation == FALSE

\* SubmitOk without the call of fetchBooks()
SubmitOkNoRefresh(r) ==
    /\ r.method \in {"POST", "PUT"}
    /\ r.stage = "ok"
    /\ ResetForm
    /\ loading' = FALSE
    /\ net' = net (-) One(r)
    /\ ev' = Event("submitOk", <<SuccessAlert(r.closureId)>>, <<>>,
                   editingId # r.closureId)
    /\ UNCHANGED <<books, prompt, server, nextId>>

\* the POST or PUT succeeded: the alert, fetchBooks(), resetForm(), finally
SubmitOk(r) ==
    /\ r.method \in {"POST", "PUT"}
    /\ r.stage = "ok"
    /\ ResetForm
    /\ loading' = LoadingAfterMutation
    /\ net' = (net (-) One(r)) (+) One(GetBooks)
    /\ ev' = Event("submitOk", <<SuccessAlert(r.closureId)>>, <<Wire(GetBooks)>>,
                   editingId # r.closureId)
    /\ UNCHANGED <<books, prompt, server, nextId>>

\* the POST or PUT was rejected: the alert of the catch block, then finally
SubmitErr(r) ==
    /\ r.method \in {"POST", "PUT"}
    /\ r.stage = "sent"
    /\ loading' = FALSE
    /\ net' = net (-) One(r)
    /\ ev' = Event("submitErr", <<FailureAlert(r.closureId)>>, <<>>,
                   editingId # r.closureId)
    /\ UNCHANGED <<books, title, author, year, description, editingId, prompt, server, nextId>>

\* ------------------------------------------------------------ handleDelete
\* handleDelete that deletes at once, without the confirmation
HandleDeleteNoConfirm(id) ==
    /\ CanTouch
    /\ \E b \in books : b.id = id
    /\ BagCardinality(net) < MaxInflight
    /\ LET q == Request("DELETE", id, NoData, Null)
       IN /\ net' = net (+) One(q)
          /\ ev' = Event("handleDelete", <<>>, <<Wire(q)>>, FALSE)
    /\ loading' = TRUE
    /\ UNCHANGED <<books, title, author, year, description, editingId, prompt, server, nextId>>

\* the trash button of a listed book: opens the confirmation
HandleDelete(id) ==
    /\ CanTouch
    /\ \E b \in books : b.id = id
    /\ prompt' = id
    /\ ev' = Event("handleDelete", <<"Delete Book">>, <<>>, FALSE)
    /\ UNCHANGED <<books, title, author, year, description, editingId, loading, net, server, nextId>>

\* 'Cancel' in the confirmation
DeleteCancel ==
    /\ prompt # Null
    /\ prompt' = Null
    /\ ev' = Event("deleteCancel", <<>>, <<>>, FALSE)
    /\ UNCHANGED <<books, title, author, year, description, editingId, loading, net, server, nextId>>

\* 'Delete' in the confirmation, up to the await
DeleteConfirm ==
    /\ prompt # Null
    /\ BagCardinality(net) < MaxInflight
    /\ LET q == Request("DELETE", prompt, NoData, Null)
       IN /\ net' = net (+) One(q)
          /\ ev' = Event("deleteConfirm", <<>>, <<Wire(q)>>, FALSE)
    /\ loading' = TRUE
    /\ prompt' = Null
    /\ UNCHANGED <<books, title, author, year, description, editingId, server, nextId>>

\* the DELETE succeeded: the alert, fetchBooks(), finally
DeleteOk(r) ==
    /\ r.method = "DELETE"
    /\ r.stage = "ok"
    /\ loading' = LoadingAfterMutation
    /\ net' = (net (-) One(r)) (+) One(GetBooks)
    /\ ev' = Event("deleteOk", <<"Success:deleted">>, <<Wire(GetBooks)>>, FALSE)
    /\ UNCHANGED <<books, title, author, year, description, editingId, prompt, server, nextId>>

\* the DELETE was rejected
DeleteErr(r) ==
    /\ r.method = "DELETE"
    /\ r.stage = "sent"
    /\ loading' = FALSE
    /\ net' = net (-) One(r)
    /\ ev' = Event("deleteErr", <<"Error:delete">>, <<>>, FALSE)
    /\ UNCHANGED <<books, title, author, year, description, editingId, prompt, server, nextId>>

\* --------------------------------------------------------------- startEdit
StartEdit(book) ==
    /\ CanTouch
    /\ book \in books
    /\ editingId' = book.id
    /\ title' = book.title
    /\ author' = book.author
    /\ year' = IF TruthyNum(book.year) THEN NumToString(book.year.v) ELSE <<>>
    /\ description' = IF book.description.tag = "str" /\ TruthyStr(book.description.v)
                       THEN book.description.v ELSE <<>>
    /\ ev' = Event("startEdit", <<>>, <<>>, FALSE)
    /\ UNCHANGED <<books, loading, prompt, net, server, nextId>>

\* ------------------------------------------------------- the text inputs
SetTitle(v) ==
    /\ CanTouch
    /\ title' = v
    /\ ev' = Event("input", <<>>, <<>>, FALSE)
    /\ UNCHANGED <<books, author, year, description, editingId, loading, prompt, net, server, nextId>>

SetAuthor(v) ==
    /\ CanTouch
    /\ author' = v
    /\ ev' = Event("input", <<>>, <<>>, FALSE)
    /\ UNCHANGED <<books, title, year, description, editingId, loading, prompt, net, server, nextId>>

SetYear(v) ==
    /\ CanTouch
    /\ year' = v
    /\ ev' = Event("input", <<>>, <<>>, FALSE)
    /\ UNCHANGED <<books, title, author, description, editingId, loading, prompt, net, server, nextId>>

SetDescription(v) ==
    /\ CanTouch
    /\ description' = v
    /\ ev' = Event("input", <<>>, <<>>, FALSE)
    /\ UNCHANGED <<books, title, author, year, editingId, loading, prompt, net, server, nextId>>

\* --------------------------------------------------------- the REST API
\* JSON drops an undefined member and writes NaN as null; the collection
\* keeps a year that is an integer and null otherwise
StoredYear(y) == IF y.tag = "int" THEN y ELSE NullV

Stored(id, data) ==
    [id |-> id, title |-> data.title, author |-> data.author,
     year |-> StoredYear(data.year), description |-> StrV(data.description)]

Answer(r, stage, resp) ==
    (net (-) One(r)) (+) One([r EXCEPT !.stage = stage, !.resp = resp])

\* the server accepts request r
ServerOk(r) ==
    /\ r.stage = "sent"
    /\ CASE r.method = "GET" ->
              /\ net' = Answer(r, "ok", server)
              /\ UNCHANGED <<server, nextId>>
         [] r.method = "POST" ->
              /\ nextId < MaxIds
              /\ server' = server \cup {Stored(nextId, r.data)}
              /\ nextId' = nextId + 1
              /\ net' = Answer(r, "ok", {})
         [] r.method = "PUT" ->
              /\ \E b \in server : b.id = r.id
              /\ server' = {b \in server : b.id # r.id}
                              \cup {Stored(r.id, r.data)}
              /\ net' = Answer(r, "ok", {})
              /\ UNCHANGED nextId
         [] r.method = "DELETE" ->
              /\ \E b \in server : b.id = r.id
              /\ server' = {b \in server : b.id # r.id}
              /\ net' = Answer(r, "ok", {})
              /\ UNCHANGED nextId
    /\ ev' = Event("server", <<>>, <<>>, FALSE)
    /\ UNCHANGED <<books, title, author, year, description, editingId, loading, prompt>>

\* ------------------------------------------------------- specification
Next ==
    \/ \E r \in Inflight : FetchOk(r)
    \/ \E r \in Inflight : FetchErr(r)
    \/ CancelEdit
    \/ HandleSubmit
    \/ \E r \in Inflight : SubmitOk(r)
    \/ \E r \in Inflight : SubmitErr(r)
    \/ \E b \in books : HandleDelete(b.id)
    \/ DeleteCancel
    \/ DeleteConfirm
    \/ \E r \in Inflight : DeleteOk(r)
    \/ \E r \in Inflight : DeleteErr(r)
    \/ \E b \in books : StartEdit(b)
    \/ \E v \in TitleInputs : SetTitle(v)
    \/ \E v \in AuthorInputs : SetAuthor(v)
    \/ \E v \in YearInputs : SetYear(v)
    \/ \E v \in DescriptionInputs : SetDescription(v)
    \/ \E r \in Inflight : ServerOk(r)

Spec == Init /\ [][Next]_vars

\* the collection the form specification starts from, already fetched:
\* books with and without a year and a description, one of them with id 0
FormBooks ==
    {[id |-> 0, title |-> <<"D">>, author |-> <<"H">>, year |-> NullV, description |-> NullS],
     [id |-> 1, title |-> <<"D">>, author |-> <<"H">>, year |-> IntV(1965),
      description |-> StrV(<<"d">>)],
     [id |-> 2, title |-> <<"D">>, author |-> <<"H">>, year |-> IntV(0),
      description |-> StrV(<<>>)]}

InitForm ==
    /\ books = FormBooks
    /\ title = <<>>
    /\ author = <<>>
    /\ year = <<>>
    /\ description = <<>>
    /\ editingId = Null
    /\ loading = FALSE
    /\ prompt = Null
    /\ net = EmptyBag
    /\ server = FormBooks
    /\ nextId = Cardinality(FormBooks)
    /\ ev = Event("fetchOk", <<>>, <<>>, FALSE)

\* the form handlers over the wider inputs; what they submit is rejected
NextForm ==
    \/ CancelEdit
    \/ HandleSubmit
    \/ \E r \in Inflight : SubmitErr(r)
    \/ \E b \in books : StartEdit(b)
    \/ \E v \in FormTitleInputs : SetTitle(v)
    \/ \E v \in FormAuthorInputs : SetAuthor(v)
    \/ \E v \in FormYearInputs : SetYear(v)
    \/ \E v \in FormDescriptionInputs : SetDescription(v)

SpecForm == InitForm /\ [][NextForm]_vars

\* every GET is answered: the lifecycle without FetchErr
NextReliable ==
    \/ \E r \in Inflight : FetchOk(r)
    \/ CancelEdit
    \/ HandleSubmit
    \/ \E r \in Inflight : SubmitOk(r)
    \/ \E r \in Inflight : SubmitErr(r)
    \/ \E b \in books : HandleDelete(b.id)
    \/ DeleteCancel
    \/ DeleteConfirm
    \/ \E r \in Inflight : DeleteOk(r)
    \/ \E r \in Inflight : DeleteErr(r)
    \/ \E b \in books : StartEdit(b)
    \/ \E v \in TitleInputs : SetTitle(v)
    \/ \E v \in AuthorInputs : SetAuthor(v)
    \/ \E v \in YearInputs : SetYear(v)
    \/ \E v \in DescriptionInputs : SetDescription(v)
    \/ \E r \in Inflight : ServerOk(r)

SpecReliable == Init /\ [][NextReliable]_vars

\* ------------------------------------------------------------ properties
\* empty or only white space
Blank(s) == \A i \in 1..Len(s) : s[i] = WS

\* no white space at either end
Trimmed(s) == s = <<>> \/ (s[1] # WS /\ s[Len(s)] # WS)

IsMutation(r) == r.method \in {"POST", "PUT"}

\* request q leaves in this step / response r is consumed in this step
Issued(q) == CopiesIn(q, net') > CopiesIn(q, net)
Consumed(r) == CopiesIn(r, net') < CopiesIn(r, net)

FormCleared == title = <<>> /\ author = <<>> /\ year = <<>> /\ description = <<>>
                 /\ editingId = Null

\* C1: whenever a request started by the controller is outstanding, loading
\* is true (also for the refresh GET after a mutation, and with overlap).
C1_BusyWhileOutstanding == BagCardinality(net) > 0 => loading

\* C2: handleSubmit sends PUT /books/<editingId> exactly when editingId is
\* non-null and POST exactly when it is null, for every id including 0.
C2_PutIffEditing ==
    \A r \in Inflight :
        IsMutation(r) =>
            /\ (r.method = "PUT") <=> (r.closureId # Null)
            /\ r.method = "PUT" => r.id = r.closureId

\* C3: handleSubmit with a blank title or author issues no request, shows
\* exactly one validation alert and leaves books, loading, editingId and the
\* form fields as they were.
C3_BlankSubmitStaysLocal ==
    [][(ev'.op = "handleSubmit" /\ (Blank(title) \/ Blank(author))) =>
          /\ ev'.alerts = <<"Validation">>
          /\ ev'.sent = <<>>
          /\ net' = net
          /\ UNCHANGED <<books, loading, editingId, title, author, year, description>>]_vars

C3_Witness ==
    /\ ev.op = "handleSubmit"
    /\ ev.alerts = <<"Validation">>
    /\ title # <<>> /\ Blank(title)
    /\ ~Blank(author)

\* C4: the delivery of a successful POST or PUT resets the form and issues
\* exactly one GET /books, whatever was edited meanwhile; handleSubmit itself,
\* before the response, neither resets the form nor issues a GET, and a GET is
\* issued only by the delivery of a successful mutation.
C4_SuccessResetsAndRefreshes ==
    [][/\ \A r \in Inflight :
             (IsMutation(r) /\ r.stage = "ok" /\ Consumed(r)) =>
                 /\ FormCleared'
                 /\ ev'.sent = <<Wire(GetBooks)>>
                 /\ net' = (net (-) One(r)) (+) One(GetBooks)
       /\ ev'.op = "submitOk" =>
             \E r \in Inflight : IsMutation(r) /\ r.stage = "ok" /\ Consumed(r)
       /\ ev'.op = "handleSubmit" =>
             /\ UNCHANGED <<title, author, year, description, editingId>>
             /\ ~Issued(GetBooks)
       /\ Issued(GetBooks) => ev'.op \in {"submitOk", "deleteOk"}]_vars

C4_Witness == ev.op = "submitOk" /\ ev.stale /\ FormCleared /\ GetBooks \in Inflight

\* C5: a DELETE /books/<id> leaves only on 'Delete' in the confirmation that
\* handleDelete(id) opened for that id; 'Cancel' issues nothing and leaves
\* books, loading and the form as they were.
C5_DeleteNeedsConfirmation ==
    [][/\ \A q \in BagToSet(net') :
             (q.method = "DELETE" /\ q.stage = "sent" /\ Issued(q)) =>
                 /\ prompt # Null
                 /\ q.id = prompt
                 /\ ev'.op = "deleteConfirm"
       /\ (prompt' # Null /\ prompt' # prompt) => ev'.op = "handleDelete"
       /\ ev'.op = "deleteCancel" =>
             /\ net' = net
             /\ ev'.sent = <<>>
             /\ UNCHANGED <<books, loading, title, author, year, description, editingId>>]_vars

C5_Witness ==
    /\ ev.op = "deleteConfirm"
    /\ \E r \in Inflight : r.method = "DELETE" /\ r.stage = "sent"
    /\ prompt = Null

\* C6: a failed GET /books leaves books as it was, shows exactly one error
\* alert and sets loading to false; books changes only when a GET succeeds,
\* and then it becomes the response.
C6_FetchFailureKeepsList ==
    [][/\ ev'.op = "fetchErr" =>
             /\ books' = books
             /\ ev'.alerts = <<"Error:fetch">>
             /\ loading' = FALSE
       /\ books' # books =>
             \E r \in Inflight :
                 /\ r.method = "GET" /\ r.stage = "ok" /\ Consumed(r)
                 /\ books' = r.resp]_vars

C6_Witness == ev.op = "fetchErr" /\ books # {} /\ ~loading

\* C7: every payload of handleSubmit has a trimmed non-empty title and
\* author, a trimmed description and a year that is absent when the year
\* field is empty and otherwise an integer, whatever the year field holds.
C7_PayloadWellFormed ==
    (ev.op = "handleSubmit" /\ ev.sent # <<>>) =>
        LET d == ev.sent[1].data
        IN /\ d.title # <<>> /\ Trimmed(d.title)
           /\ d.author # <<>> /\ Trimmed(d.author)
           /\ Trimmed(d.description)
           /\ year = <<>> => d.year = UndefV
           /\ year # <<>> => d.year.tag = "int"

\* C8: a failed POST or PUT shows exactly one error alert naming the action
\* attempted ('add' for POST, 'update' for PUT), issues no GET, leaves the
\* form, editingId and books as they were and sets loading to false.
C8_SubmitFailure ==
    [][ev'.op = "submitErr" =>
          /\ \E r \in Inflight :
                 /\ IsMutation(r) /\ Consumed(r)
                 /\ net' = net (-) One(r)
                 /\ ev'.alerts = <<IF r.method = "PUT" THEN "Error:update" ELSE "Error:add">>
          /\ ev'.sent = <<>>
          /\ loading' = FALSE
          /\ UNCHANGED <<books, title, author, year, description, editingId>>]_vars

C8_Witness ==
    /\ ev.op = "submitErr"
    /\ ev.stale
    /\ ev.alerts = <<"Error:add">>
    /\ TruthyId(editingId)

\* C9: resetForm leaves title, author, year and description empty and
\* editingId null, and changes neither books nor loading, from any form state
\* (also the one startEdit left).
C9_ResetFormClears ==
    [][ev'.op = "resetForm" => (FormCleared' /\ UNCHANGED <<books, loading>>)]_vars

C9_Witness == ev.op = "resetForm" /\ FormCleared /\ books # {}

\* C10: with every GET answered and this client the only writer, once a
\* mutation has succeeded and no request is outstanding the cached list is
\* the server's collection.
C10_CacheMatchesServer ==
    (BagCardinality(net) = 0 /\ nextId > 0) => books = server

====
